---------------------------- MODULE Spec2Model ----------------------------
(***************************************************************************)
(* A model of findYTmusic (src/main.py, src/services.py, src/models.py,   *)
(* src/ui.py, src/config.py): the catalog store (DatabaseService over one *)
(* sqlite3 connection), the search gateway (MusicSearchService), the      *)
(* download invoker (Downloader) and the coordinator (FindYTMusicApp),    *)
(* whose handlers run on the event loop of the main thread while the      *)
(* search and download calls run on executor threads (asyncio.to_thread). *)
(*                                                                         *)
(* Two specifications are given.  Spec is the running application.        *)
(* SpecService calls the methods of DatabaseService and                   *)
(* MusicSearchService directly, one call at a time, with the calling      *)
(* thread as one of the inputs of the call.                               *)
(***************************************************************************)
EXTENDS Integers, Sequences, FiniteSets, TLC

(***************************************************************************)
(* Bounds of the model.                                                    *)
(***************************************************************************)
\* the longest remote response, in raw items
MaxItems == 2
\* the number of search requests of one run
MaxSearches == 2
\* the number of downloads running at one time
MaxDownloads == 1

(***************************************************************************)
(* Values.  Python's None and a key missing from a dict are two strings   *)
(* that no catalog text equals.  An optional value is a sequence of       *)
(* length 0 (None) or 1.                                                   *)
(***************************************************************************)
Null == "<None>"
Absent == "<absent>"
None == << >>
Some(v) == << v >>
IsNone(o) == Len(o) = 0

\* the identifiers the remote catalog can return
VideoIds == { "a", "b" }

\* the threads of the process: the main thread runs __main__ and the event
\* loop; asyncio.to_thread runs its function on an executor thread
MainThread == "main"
WorkerThread == "executor"
Threads == { MainThread, WorkerThread }


(***************************************************************************)
(* models.py: SearchResult, and the raw items of the remote catalog.      *)
(***************************************************************************)
SearchResult(video_id, title, artist, album_name, duration, link, is_explicit) ==
    [ video_id |-> video_id, title |-> title, artist |-> artist,
      album_name |-> album_name, duration |-> duration, link |-> link,
      is_explicit |-> is_explicit ]

\* one item of ytmusic.search(...): a dict.  videoId and album (the album's
\* name) are texts, Null, or Absent when the key is missing; title is a
\* text (models.py declares title: str) or Absent;
\* artists is a list of entries, each the text of its "name", Null, or
\* Absent for an entry without a name; duration_seconds is an integer or
\* some other value; isExplicit is optional
RawItem(videoId, title, artists, album, duration_seconds, isExplicit) ==
    [ videoId |-> videoId, title |-> title, artists |-> artists,
      album |-> album, duration_seconds |-> duration_seconds,
      isExplicit |-> isExplicit ]

ArtistsMissing == [ kind |-> "absent", names |-> << >> ]
ArtistsNull == [ kind |-> "null", names |-> << >> ]
ArtistList(names) == [ kind |-> "list", names |-> names ]
NoDuration == [ kind |-> "absent", val |-> 0 ]
Seconds(n) == [ kind |-> "int", val |-> n ]
NotAnInteger == [ kind |-> "other", val |-> 0 ]

\* the well-formed items of the model: two identifiers, with and without
\* an album, two titles for the first
PlainItems ==
    { RawItem("a", t, ArtistList(<< "R" >>), al, NoDuration, Some(FALSE)) :
        t \in { "T", "U" }, al \in { Absent, "X" } }
    \cup { RawItem("b", "T", ArtistList(<< "R" >>), al, NoDuration, Some(FALSE)) :
             al \in { Absent, "X" } }

\* items with no usable identifier, with fields missing or None, with more
\* fields present, and items whose artists or duration are malformed
OddItems ==
    { RawItem(Absent, "T", ArtistList(<< "R" >>), "X", NoDuration, Some(FALSE)),
      RawItem("", "T", ArtistList(<< "R" >>), "X", NoDuration, Some(FALSE)),
      RawItem(Null, "T", ArtistList(<< "R" >>), "X", NoDuration, Some(FALSE)),
      RawItem("a", "T", ArtistsMissing, "X", NoDuration, Some(FALSE)),
      RawItem("a", "T", ArtistList(<< "R" >>), Null, NoDuration, Some(FALSE)),
      RawItem("a", "T", ArtistList(<< "R", "S" >>), "X", Seconds(65), Some(TRUE)),
      RawItem("a", Absent, ArtistList(<< "R" >>), "X", Seconds(3725), None),
      RawItem("a", "T", ArtistsNull, "X", NoDuration, Some(FALSE)),
      RawItem("a", "T", ArtistList(<< "R", Absent >>), "X", NoDuration, Some(FALSE)),
      RawItem("a", "T", ArtistList(<< "R" >>), "X", NotAnInteger, Some(FALSE)) }

RawItems == PlainItems \cup OddItems

SeqsUpTo(S, n) == UNION { [ 1..k -> S ] : k \in 0..n }

\* what the remote call can do: raise, or return a list of raw items
RemoteFault == [ fault |-> TRUE, items |-> << >> ]
RemoteItems(items) == [ fault |-> FALSE, items |-> items ]
Responses == { RemoteFault } \cup { RemoteItems(s) : s \in SeqsUpTo(RawItems, MaxItems) }

(***************************************************************************)
(* services.py: MusicSearchService._parse_item.                            *)
(***************************************************************************)
\* f"{n:02d}" of an integer n >= 0
Format02d(n) == IF n < 10 THEN "0" \o ToString(n) ELSE ToString(n)

\* divmod(duration_seconds, 60), then f"{minutes:02d}:{seconds:02d}"
FormatDuration(n) == Format02d(n \div 60) \o ":" \o Format02d(n % 60)

\* ", ".join(names)
RECURSIVE Join(_)
Join(names) ==
    IF Len(names) = 0 THEN ""
    ELSE IF Len(names) = 1 THEN names[1]
    ELSE names[1] \o ", " \o Join(Tail(names))

\* f"https://music.youtube.com/watch?v={item['videoId']}"
Link(videoId) ==
    "https://music.youtube.com/watch?v=" \o (IF videoId = Null THEN "None" ELSE videoId)

\* the result of a call that may raise
\* (value is a sequence in every use: an Optional, a list, a table)
Returned(v) == [ raised |-> FALSE, what |-> "", value |-> v ]
Raised(what) == [ raised |-> TRUE, what |-> what, value |-> << >> ]

\* _parse_item raises where Python does: a["name"] of an entry without a
\* name (KeyError), iterating artists = None (TypeError), joining a name
\* that is None (TypeError), divmod or the 02d format of a duration that is
\* no integer (TypeError, ValueError)
ParseRaises(item) ==
    \/ item.duration_seconds.kind = "other"
    \/ item.artists.kind = "null"
    \/ \E i \in 1..Len(item.artists.names) : item.artists.names[i] \in { Absent, Null }

\* _parse_item: None for an item without a videoId key, else the record
\* (an Optional), unless it raises
parse_item(item) ==
    IF item.videoId = Absent THEN Returned(None)
    ELSE IF ParseRaises(item) THEN Raised("_parse_item")
    ELSE Returned(Some(SearchResult(
            item.videoId,
            IF item.title = Absent THEN "N/A" ELSE item.title,
            IF Join(item.artists.names) = "" THEN "N/A" ELSE Join(item.artists.names),
            IF item.album \in { Absent, Null } THEN "Single" ELSE item.album,
            IF item.duration_seconds.kind = "absent" THEN "N/A"
            ELSE FormatDuration(item.duration_seconds.val),
            Link(item.videoId),
            IF IsNone(item.isExplicit) THEN FALSE ELSE item.isExplicit[1])))


(***************************************************************************)
(* services.py: DatabaseService.  The songs table is the sequence of its  *)
(* rows in rowid order.  The connection is made by sqlite3.connect with   *)
(* its defaults on the thread that runs __main__, so it has               *)
(* check_same_thread set: every use of it from another thread raises      *)
(* sqlite3.ProgrammingError before the database is touched.               *)
(***************************************************************************)
ConnectionOwner == MainThread

CheckThread(thread) == thread = ConnectionOwner

\* create_table: CREATE TABLE IF NOT EXISTS leaves an existing table alone
create_table_Drop(table) == << >>
create_table(table) == table

\* the constraints of the table: video_id PRIMARY KEY, link UNIQUE,
\* title, artist and link NOT NULL
ViolatesConstraint(table, row) ==
    \/ row.title = Null
    \/ row.artist = Null
    \/ row.link = Null
    \/ \E i \in 1..Len(table) : table[i].video_id = row.video_id
    \/ \E i \in 1..Len(table) : table[i].link = row.link

\* INSERT OR IGNORE of one row: a row that violates a constraint is skipped
InsertPlain(table, row) == Append(table, row)
InsertOrIgnore(table, row) ==
    IF ViolatesConstraint(table, row) THEN table ELSE Append(table, row)

\* executemany: the rows one after the other
RECURSIVE ExecuteMany(_, _)
ExecuteMany(table, rows) ==
    IF Len(rows) = 0 THEN table
    ELSE ExecuteMany(InsertOrIgnore(table, rows[1]), Tail(rows))

\* save_results(results) called on `thread`: the table after the call, or
\* the exception
save_results(table, results, thread) ==
    IF ~CheckThread(thread) THEN Raised("sqlite3.ProgrammingError")
    ELSE Returned(ExecuteMany(table, results))

\* the texts of the model in the order of SQLite's BINARY collation (bytes)
Collation == << "N/A", "R", "R, S", "Single", "T", "U", "X" >>
TextRank(s) == CHOOSE i \in 1..Len(Collation) : Collation[i] = s

\* ORDER BY artist, album_name, title: row r sorts strictly before row q
OrderedBefore(r, q) ==
    \/ TextRank(r.artist) < TextRank(q.artist)
    \/ /\ r.artist = q.artist
       /\ \/ TextRank(r.album_name) < TextRank(q.album_name)
          \/ /\ r.album_name = q.album_name
             /\ TextRank(r.title) < TextRank(q.title)

\* row put into a sorted list behind every row that does not sort after it
RECURSIVE InsertSorted(_, _)
InsertSorted(sorted, row) ==
    IF Len(sorted) = 0 THEN << row >>
    ELSE IF OrderedBefore(row, sorted[1]) THEN << row >> \o sorted
    ELSE << sorted[1] >> \o InsertSorted(Tail(sorted), row)

RECURSIVE SortRows(_, _)
SortRows(sorted, rows) ==
    IF Len(rows) = 0 THEN sorted
    ELSE SortRows(InsertSorted(sorted, rows[1]), Tail(rows))

\* load_all_songs() called on `thread`: SELECT * ... ORDER BY, each row a
\* SearchResult
load_all_songs_Unsorted(table, thread) ==
    IF ~CheckThread(thread) THEN Raised("sqlite3.ProgrammingError")
    ELSE Returned(table)
load_all_songs(table, thread) ==
    IF ~CheckThread(thread) THEN Raised("sqlite3.ProgrammingError")
    ELSE Returned(SortRows(<< >>, table))

(***************************************************************************)
(* services.py: MusicSearchService.search.                                 *)
(***************************************************************************)
\* unique_results[parsed_result.video_id] = parsed_result: a dict keeps the
\* place of a key's first insertion and the value of its last
DictPutFirst(unique, rec) ==
    IF \E i \in 1..Len(unique) : unique[i].video_id = rec.video_id
    THEN unique
    ELSE Append(unique, rec)
DictPut_Append(unique, rec) == Append(unique, rec)
DictPut(unique, rec) ==
    IF \E i \in 1..Len(unique) : unique[i].video_id = rec.video_id
    THEN [ i \in 1..Len(unique) |->
             IF unique[i].video_id = rec.video_id THEN rec ELSE unique[i] ]
    ELSE Append(unique, rec)

\* `parsed_result and parsed_result.video_id`: None, "" are falsy
Truthy_Anything(video_id) == TRUE
Truthy(video_id) == video_id \notin { "", Null }

\* the loop over search_items: list(unique_results.values()), or the
\* exception of the first item that does not parse
RECURSIVE UniqueResults(_, _)
UniqueResults(unique, items) ==
    IF Len(items) = 0 THEN Returned(unique)
    ELSE LET parsed == parse_item(items[1])
         IN  IF parsed.raised THEN Raised(parsed.what)
             ELSE IF ~IsNone(parsed.value) /\ Truthy(parsed.value[1].video_id)
                  THEN UniqueResults(DictPut(unique, parsed.value[1]), Tail(items))
                  ELSE UniqueResults(unique, Tail(items))

\* the pair search returns
Success(results) == [ records |-> Some(results), error |-> None ]
Failure(what) == [ records |-> None, error |-> Some("Traceback: " \o what) ]

NoPair == [ records |-> None, error |-> None ]

\* what a call of search does: return a pair (search catches every
\* Exception, so it never raises), and leave the table as `table`
SearchReturns(pair, table) == [ raised |-> FALSE, ret |-> pair, table |-> table ]
SearchRaises(table) == [ raised |-> TRUE, ret |-> NoPair, table |-> table ]

\* search(query, limit) called on `thread` with the table as it is and the
\* remote call doing `response`
search_NoSave(table, response, thread) ==
    IF response.fault THEN SearchReturns(Failure("ytmusic.search"), table)
    ELSE LET unique == UniqueResults(<< >>, response.items)
         IN  IF unique.raised
             THEN SearchReturns(Failure(unique.what), table)
             ELSE SearchReturns(Success(unique.value), table)
search_NoExcept(table, response, thread) ==
    IF response.fault THEN SearchRaises(table)
    ELSE LET unique == UniqueResults(<< >>, response.items)
         IN  IF unique.raised
             THEN SearchRaises(table)
             ELSE IF Len(unique.value) = 0
                  THEN SearchReturns(Success(<< >>), table)
                  ELSE LET saved == save_results(table, unique.value, thread)
                       IN  IF saved.raised
                           THEN SearchRaises(table)
                           ELSE SearchReturns(Success(unique.value), saved.value)
search(table, response, thread) ==
    IF response.fault THEN SearchReturns(Failure("ytmusic.search"), table)
    ELSE LET unique == UniqueResults(<< >>, response.items)
         IN  IF unique.raised
             THEN SearchReturns(Failure(unique.what), table)
             ELSE IF Len(unique.value) = 0
                  THEN SearchReturns(Success(<< >>), table)
                  ELSE LET saved == save_results(table, unique.value, thread)
                       IN  IF saved.raised
                           THEN SearchReturns(Failure(saved.what), table)
                           ELSE SearchReturns(Success(unique.value), saved.value)


(***************************************************************************)
(* The state.                                                              *)
(***************************************************************************)
VARIABLES
    store,        \* the songs table of the database file
    phase,        \* where the process is
    is_available, \* Downloader.is_available
    app_state,    \* FindYTMusicApp.app_state: an AppState
    searches,     \* the workers of group "search_worker", in request order
    downloads,    \* the running workers of group "download_worker", in start order
    log,          \* the lines the last step wrote to the LogPane
    call          \* Spec: the call of a service that the last step of the
                  \* main thread made; SpecService: the last call made, and
                  \* what it returned

vars == << store, phase, is_available, app_state, searches, downloads, log,
           call >>

\* models.py: AppState
AppState(results, selected_result) ==
    [ results |-> results, selected_result |-> selected_result ]

\* the records _parse_item can make that search keeps
ParsedRows ==
    { parse_item(item).value[1] :
        item \in { i \in RawItems :
                     /\ ~parse_item(i).raised
                     /\ ~IsNone(parse_item(i).value)
                     /\ i.videoId \in VideoIds } }

VideoIdsOf(rows) == { rows[i].video_id : i \in 1..Len(rows) }

\* the tables a database file written by save_results can hold
InitialTables ==
    { t \in SeqsUpTo(ParsedRows, Cardinality(VideoIds)) :
        \A i, j \in 1..Len(t) : i # j => t[i].video_id # t[j].video_id }

(***************************************************************************)
(* SpecService: the methods of DatabaseService and MusicSearchService,    *)
(* called directly.                                                        *)
(***************************************************************************)
NoCall ==
    [ op |-> "none", thread |-> MainThread, results |-> << >>,
      response |-> RemoteFault, before |-> << >>, raised |-> FALSE,
      rows |-> << >>, ret |-> NoPair, earlier |-> None ]

\* the call of `op` made on `thread`
Called(op, thread) == [ NoCall EXCEPT !.op = op, !.thread = thread ]

InitService ==
    /\ store \in InitialTables
    /\ phase = "service"
    /\ is_available = FALSE
    /\ app_state = AppState(<< >>, None)
    /\ searches = << >>
    /\ downloads = << >>
    /\ log = << >>
    /\ call = NoCall

AppUnchanged ==
    UNCHANGED << phase, is_available, app_state, searches, downloads, log >>

\* db_service.save_results(results) on `thread`
CallSaveResults(results, thread) ==
    /\ phase = "service"
    /\ call = NoCall
    /\ LET done == save_results(store, results, thread)
       IN  /\ store' = IF done.raised THEN store ELSE done.value
           /\ call' = [ NoCall EXCEPT !.op = "save_results", !.thread = thread,
                          !.results = results, !.before = store,
                          !.raised = done.raised ]
    /\ AppUnchanged

\* db_service.load_all_songs() on `thread`, as the first call on the store
\* or straight after another load_all_songs(), whose rows `earlier` keeps
CallLoadAllSongs_TiesReversed(thread) ==
    /\ phase = "service"
    /\ call = NoCall \/ call.op = "load_all_songs"
    /\ LET again == call.op = "load_all_songs" /\ ~call.raised
           reversed == [ i \in 1..Len(store) |-> store[Len(store) + 1 - i] ]
           done == load_all_songs(IF again THEN reversed ELSE store, thread)
       IN  call' = [ NoCall EXCEPT !.op = "load_all_songs", !.thread = thread,
                       !.before = store, !.raised = done.raised,
                       !.rows = done.value,
                       !.earlier = IF again THEN Some(call.rows) ELSE None ]
    /\ UNCHANGED store
    /\ AppUnchanged
CallLoadAllSongs(thread) ==
    /\ phase = "service"
    /\ call = NoCall \/ call.op = "load_all_songs"
    /\ LET done == load_all_songs(store, thread)
       IN  call' = [ NoCall EXCEPT !.op = "load_all_songs", !.thread = thread,
                       !.before = store, !.raised = done.raised,
                       !.rows = done.value,
                       !.earlier = IF call.op = "load_all_songs" /\ ~call.raised
                                   THEN Some(call.rows) ELSE None ]
    /\ UNCHANGED store
    /\ AppUnchanged

\* search_service.search(query, limit) on `thread`, the remote call doing
\* `response`
CallSearch(response, thread) ==
    /\ phase = "service"
    /\ call = NoCall
    /\ LET done == search(store, response, thread)
       IN  /\ store' = done.table
           /\ call' = [ NoCall EXCEPT !.op = "search", !.thread = thread,
                          !.response = response, !.before = store,
                          !.raised = done.raised, !.ret = done.ret ]
    /\ AppUnchanged

\* the caller is done with what the call returned and with the application
\* state it was applied to; the next call follows
CallDone ==
    /\ phase = "service"
    /\ call # NoCall
    /\ call' = NoCall
    /\ app_state' = AppState(<< >>, None)
    /\ log' = << >>
    /\ UNCHANGED << store, phase, is_available, searches, downloads >>

\* the calls the model makes: every batch, every response, either thread
SaveResultsCalls ==
    /\ call = NoCall
    /\ \E results \in SeqsUpTo(ParsedRows, MaxItems), thread \in Threads :
          CallSaveResults(results, thread)

LoadAllSongsCalls ==
    /\ call = NoCall \/ call.op = "load_all_songs"
    /\ \E thread \in Threads : CallLoadAllSongs(thread)

SearchCalls ==
    /\ call = NoCall
    /\ \E response \in Responses, thread \in Threads : CallSearch(response, thread)



(***************************************************************************)
(* services.py: Downloader.                                                *)
(***************************************************************************)
\* what running the external command can do
DownloadOutcomes == { "exit 0", "exit nonzero", "not spawned" }

\* a line of the log, or a message: what it says and the text put into it
Line(kind, about) == [ kind |-> kind, about |-> about ]

\* Downloader.run(url, title): the pair (success, message); the message
\* carries the title, except "Command '<name>' not found."; spawned tells
\* whether subprocess.run started the external process
Downloader_run(available, url, title, outcome) ==
    IF ~available
    THEN [ success |-> FALSE, message |-> Line("Command not found.", ""),
           spawned |-> FALSE ]
    ELSE IF outcome = "exit 0"
    THEN [ success |-> TRUE, message |-> Line("Download successful for", title),
           spawned |-> TRUE ]
    ELSE IF outcome = "exit nonzero"
    THEN [ success |-> FALSE, message |-> Line("Download failed for", title),
           spawned |-> TRUE ]
    ELSE [ success |-> FALSE,
           message |-> Line("An unexpected error occurred during the download of", title),
           spawned |-> FALSE ]

(***************************************************************************)
(* main.py: FindYTMusicApp.  Handlers and the code of a worker between    *)
(* two awaits run on the event loop, one at a time.  A worker is a        *)
(* coroutine (coro) that hands its blocking call to an executor thread    *)
(* (thread) and resumes when the call has returned.  Cancelling a worker  *)
(* cancels the coroutine: it never resumes; the thread runs on.           *)
(***************************************************************************)
\* the queries of the model
Queries == { "get lucky" }

SearchWorker(query) ==
    [ query |-> query, coro |-> "pending", thread |-> "idle", ret |-> NoPair,
      late |-> FALSE ]

DownloadWorker(result) ==
    [ result |-> result, coro |-> "pending", thread |-> "idle",
      ret |-> [ success |-> FALSE, message |-> Line("", ""), spawned |-> FALSE ] ]

\* the remote responses of the running application: a fault, no items, an
\* item without an identifier, one item, two items of one identifier (the
\* second without an album), and an item that does not parse
AppResponses ==
    LET item == RawItem("a", "T", ArtistList(<< "R" >>), "X", NoDuration, Some(FALSE))
    IN  { RemoteFault,
          RemoteItems(<< >>),
          RemoteItems(<< [ item EXCEPT !.videoId = Absent ] >>),
          RemoteItems(<< item >>),
          RemoteItems(<< item, [ item EXCEPT !.album = Absent ] >>),
          RemoteItems(<< item, [ item EXCEPT !.artists = ArtistsNull ] >>) }

\* the list without its d-th element
Remove(list, d) == [ i \in 1..(Len(list) - 1) |-> IF i < d THEN list[i] ELSE list[i + 1] ]

\* the tables the database file holds when the process starts: no row, or
\* two rows of which the second sorts before the first
StartRows ==
    { parse_item(RawItem("a", "T", ArtistList(<< "R" >>), "X", NoDuration, Some(FALSE))).value[1],
      parse_item(RawItem("b", "T", ArtistList(<< "R" >>), Absent, NoDuration, Some(FALSE))).value[1] }
StartTables ==
    { t \in InitialTables :
        /\ \A i \in 1..Len(t) : t[i] \in StartRows
        /\ Len(t) # 1
        /\ Len(t) = 2 => t[1].video_id = "a" }

Init ==
    /\ store \in StartTables
    /\ phase = "start"
    /\ is_available = FALSE
    /\ app_state = AppState(<< >>, None)
    /\ searches = << >>
    /\ downloads = << >>
    /\ log = << >>
    /\ call = NoCall

\* next(r for r in results if r.video_id == key, None)
Lookup_FirstRow(results, key) ==
    IF Len(results) > 0 THEN Some(results[1]) ELSE None
Lookup(results, key) ==
    IF \E i \in 1..Len(results) : results[i].video_id = key
    THEN Some(results[CHOOSE i \in 1..Len(results) :
                        /\ results[i].video_id = key
                        /\ \A j \in 1..(i - 1) : results[j].video_id # key])
    ELSE None

\* __main__: DatabaseService(...) makes the connection and the table,
\* Downloader(...) looks the command up (shutil.which), app.run() starts
Main ==
    /\ phase = "start"
    /\ store' = create_table(store)
    /\ is_available' \in BOOLEAN
    /\ phase' = "mounting"
    /\ call' = Called("create_table", MainThread)
    /\ UNCHANGED << app_state, searches, downloads, log >>

\* action_view_library: the lines written and the new state
view_library(table) ==
    LET library_results == load_all_songs(table, MainThread).value
    IN  [ app_state |-> AppState(library_results, None),
          log |-> << Line("Loading full music library...", ""),
                     Line("Displaying songs from your local library.",
                          ToString(Len(library_results))) >> ]

\* on_mount: what was found (the download command; pyperclip, which the
\* import at the top of main.py found or did not), then action_view_library()
on_mount_NoLoad ==
    /\ phase = "mounting"
    /\ \E pyperclip \in BOOLEAN :
          log' = << Line(IF is_available THEN "gytmdl found." ELSE "'gytmdl' not found.", ""),
                    Line(IF pyperclip THEN "Clipboard found."
                         ELSE "'pyperclip' not installed.", "") >>
    /\ phase' = "running"
    /\ call' = NoCall
    /\ UNCHANGED << store, is_available, app_state, searches, downloads >>
on_mount ==
    /\ phase = "mounting"
    /\ app_state' = view_library(store).app_state
    /\ \E pyperclip \in BOOLEAN :
          log' = << Line(IF is_available THEN "gytmdl found." ELSE "'gytmdl' not found.", ""),
                    Line(IF pyperclip THEN "Clipboard found."
                         ELSE "'pyperclip' not installed.", "") >>
                 \o view_library(store).log
    /\ phase' = "running"
    /\ call' = Called("load_all_songs", MainThread)
    /\ UNCHANGED << store, is_available, searches, downloads >>

\* key l
action_view_library_Supersedes ==
    /\ phase = "running"
    /\ app_state' = view_library(store).app_state
    /\ log' = view_library(store).log
    /\ call' = Called("load_all_songs", MainThread)
    /\ searches' = [ w \in 1..Len(searches) |->
                       IF searches[w].coro \in { "pending", "awaiting" }
                       THEN [ searches[w] EXCEPT !.coro = "cancelled" ]
                       ELSE searches[w] ]
    /\ UNCHANGED << store, phase, is_available, downloads >>
action_view_library ==
    /\ phase = "running"
    /\ app_state' = view_library(store).app_state
    /\ log' = view_library(store).log
    /\ call' = Called("load_all_songs", MainThread)
    /\ UNCHANGED << store, phase, is_available, searches, downloads >>

\* workers.cancel_group(self, "search_worker") and run_worker(...,
\* exclusive=True): every search worker that has not finished is cancelled
CancelGroup_Nothing(workers) == workers
CancelGroup(workers) ==
    [ w \in 1..Len(workers) |->
        IF workers[w].coro \in { "pending", "awaiting" }
        THEN [ workers[w] EXCEPT
                 !.coro = "cancelled",
                 !.ret = IF workers[w].thread = "saving" THEN workers[w].ret ELSE NoPair ]
        ELSE workers[w] ]

on_search_controls_search_requested(query) ==
    /\ phase = "running"
    /\ Len(searches) < MaxSearches
    /\ log' = << Line("Searching for", query) >>
    /\ searches' = Append(CancelGroup(searches), SearchWorker(query))
    /\ call' = NoCall
    /\ UNCHANGED << store, phase, is_available, app_state, downloads >>

\* perform_search up to its await: asyncio.to_thread(search, query, limit)
perform_search_await(w) ==
    /\ phase = "running"
    /\ searches[w].coro = "pending"
    /\ searches' = [ searches EXCEPT ![w].coro = "awaiting", ![w].thread = "running" ]
    /\ log' = << >>
    /\ call' = NoCall
    /\ UNCHANGED << store, phase, is_available, app_state, downloads >>

\* search from its start to its call of save_results, the remote call
\* doing `response`: the pair it returns without a call of save_results, or
\* the results it calls save_results with
search_to_save(response) ==
    IF response.fault THEN [ saves |-> FALSE, ret |-> Failure("ytmusic.search") ]
    ELSE LET unique == UniqueResults(<< >>, response.items)
         IN  IF unique.raised THEN [ saves |-> FALSE, ret |-> Failure(unique.what) ]
             ELSE IF Len(unique.value) = 0 THEN [ saves |-> FALSE, ret |-> Success(<< >>) ]
             ELSE [ saves |-> TRUE, ret |-> Success(unique.value) ]

\* search from its call of save_results(results) to its return
search_from_save_NothingFound(table, results, thread) ==
    LET saved == save_results(table, results, thread)
    IN  IF saved.raised
        THEN SearchReturns(Success(<< >>), table)
        ELSE SearchReturns(Success(results), saved.value)
search_from_save(table, results, thread) ==
    LET saved == save_results(table, results, thread)
    IN  IF saved.raised
        THEN SearchReturns(Failure(saved.what), table)
        ELSE SearchReturns(Success(results), saved.value)

\* what a thread hands to its coroutine: nothing reads what it returned to
\* a cancelled one
Handed(w, ret) == IF searches[w].coro = "cancelled" THEN NoPair ELSE ret

\* the executor thread runs search_service.search up to its return, or up
\* to its call of db_service.save_results (thread "saving", ret the pair it
\* returns when the call returns)
search_thread(w, response) ==
    /\ searches[w].thread = "running"
    /\ LET to_save == search_to_save(response)
       IN  searches' = [ searches EXCEPT
              ![w].thread = IF to_save.saves THEN "saving" ELSE "returned",
              ![w].ret = IF to_save.saves THEN to_save.ret ELSE Handed(w, to_save.ret),
              ![w].late = /\ ~to_save.saves
                          /\ \E v \in (w + 1)..Len(searches) : searches[v].coro = "done" ]
    /\ log' = << >>
    /\ call' = NoCall
    /\ UNCHANGED << store, phase, is_available, app_state, downloads >>

\* the executor thread runs db_service.save_results(results), and search
\* returns
save_thread(w) ==
    /\ searches[w].thread = "saving"
    /\ LET done == search_from_save(store, searches[w].ret.records[1], WorkerThread)
       IN  /\ store' = done.table
           /\ searches' = [ searches EXCEPT
                 ![w].thread = "returned",
                 ![w].ret = Handed(w, done.ret),
                 ![w].late = \E v \in (w + 1)..Len(searches) : searches[v].coro = "done" ]
    /\ log' = << >>
    /\ call' = NoCall
    /\ UNCHANGED << phase, is_available, app_state, downloads >>

\* perform_search after its await: the new state and the lines written
after_search_ClearOnError(state, query, ret) ==
    IF ~IsNone(ret.error)
    THEN [ app_state |-> AppState(<< >>, None),
           log |-> << Line("An error occurred during search.", ""),
                      Line("error_details", ret.error[1]) >> ]
    ELSE [ app_state |-> AppState(ret.records[1], None),
           log |-> << IF Len(ret.records[1]) = 0
                      THEN Line("No music found for", query)
                      ELSE Line("Found results. New entries saved to local library.",
                                ToString(Len(ret.records[1]))) >> ]
after_search_KeepSelected(state, query, ret) ==
    IF ~IsNone(ret.error)
    THEN [ app_state |-> state,
           log |-> << Line("An error occurred during search.", ""),
                      Line("error_details", ret.error[1]) >> ]
    ELSE [ app_state |-> AppState(ret.records[1], state.selected_result),
           log |-> << IF Len(ret.records[1]) = 0
                      THEN Line("No music found for", query)
                      ELSE Line("Found results. New entries saved to local library.",
                                ToString(Len(ret.records[1]))) >> ]
after_search_Sorted(state, query, ret) ==
    IF ~IsNone(ret.error)
    THEN [ app_state |-> state,
           log |-> << Line("An error occurred during search.", ""),
                      Line("error_details", ret.error[1]) >> ]
    ELSE [ app_state |-> AppState(SortRows(<< >>, ret.records[1]), None),
           log |-> << IF Len(ret.records[1]) = 0
                      THEN Line("No music found for", query)
                      ELSE Line("Found results. New entries saved to local library.",
                                ToString(Len(ret.records[1]))) >> ]
after_search(state, query, ret) ==
    IF ~IsNone(ret.error)
    THEN [ app_state |-> state,
           log |-> << Line("An error occurred during search.", ""),
                      Line("error_details", ret.error[1]) >> ]
    ELSE [ app_state |-> AppState(ret.records[1], None),
           log |-> << IF Len(ret.records[1]) = 0
                      THEN Line("No music found for", query)
                      ELSE Line("Found results. New entries saved to local library.",
                                ToString(Len(ret.records[1]))) >> ]

perform_search_resume_Silent(w) ==
    /\ phase = "running"
    /\ searches[w].coro = "awaiting"
    /\ searches[w].thread = "returned"
    /\ LET after == after_search(app_state, searches[w].query, searches[w].ret)
       IN  /\ app_state' = after.app_state
           /\ log' = IF IsNone(searches[w].ret.error) THEN << >> ELSE after.log
    /\ searches' = [ searches EXCEPT ![w].coro = "done", ![w].ret = NoPair ]
    /\ call' = NoCall
    /\ UNCHANGED << store, phase, is_available, downloads >>
perform_search_resume(w) ==
    /\ phase = "running"
    /\ searches[w].coro = "awaiting"
    /\ searches[w].thread = "returned"
    /\ LET after == after_search(app_state, searches[w].query, searches[w].ret)
       IN  /\ app_state' = after.app_state
           /\ log' = after.log
    /\ searches' = [ searches EXCEPT ![w].coro = "done", ![w].ret = NoPair ]
    /\ call' = NoCall
    /\ UNCHANGED << store, phase, is_available, downloads >>

\* a row of the table gets the cursor; the key may be None, or of a row
\* that results no longer holds
on_results_display_row_highlighted(key) ==
    /\ phase = "running"
    /\ app_state' = AppState(app_state.results, Lookup(app_state.results, key))
    /\ log' = << >>
    /\ call' = NoCall
    /\ UNCHANGED << store, phase, is_available, searches, downloads >>

\* enter on a row
on_results_display_row_selected_Exclusive(key) ==
    /\ phase = "running"
    /\ LET selected == Lookup(app_state.results, key)
       IN  IF IsNone(selected)
           THEN UNCHANGED downloads
           ELSE downloads' = << DownloadWorker(selected[1]) >>
    /\ log' = << >>
    /\ call' = NoCall
    /\ UNCHANGED << store, phase, is_available, app_state, searches >>
on_results_display_row_selected(key) ==
    /\ phase = "running"
    /\ LET selected == Lookup(app_state.results, key)
       IN  IF IsNone(selected)
           THEN UNCHANGED downloads
           ELSE /\ Len(downloads) < MaxDownloads
                /\ downloads' = Append(downloads, DownloadWorker(selected[1]))
    /\ log' = << >>
    /\ call' = NoCall
    /\ UNCHANGED << store, phase, is_available, app_state, searches >>

\* perform_download up to its await, or to its return when the command is
\* not available
perform_download_await_NoCheck(d) ==
    /\ phase = "running"
    /\ downloads[d].coro = "pending"
    /\ log' = << Line("Queueing for download...", downloads[d].result.title) >>
    /\ downloads' = [ downloads EXCEPT ![d].coro = "awaiting", ![d].thread = "running" ]
    /\ call' = NoCall
    /\ UNCHANGED << store, phase, is_available, app_state, searches >>
perform_download_await(d) ==
    /\ phase = "running"
    /\ downloads[d].coro = "pending"
    /\ IF ~is_available
       THEN /\ log' = << Line("Download failed: Command not found.", "") >>
            /\ downloads' = Remove(downloads, d)
       ELSE /\ log' = << Line("Queueing for download...", downloads[d].result.title) >>
            /\ downloads' = [ downloads EXCEPT ![d].coro = "awaiting",
                                               ![d].thread = "running" ]
    /\ call' = NoCall
    /\ UNCHANGED << store, phase, is_available, app_state, searches >>

\* the executor thread runs downloader.run(result.link, result.title)
download_thread(d, outcome) ==
    /\ downloads[d].thread = "running"
    /\ downloads' = [ downloads EXCEPT
          ![d].thread = "returned",
          ![d].ret = Downloader_run(is_available, downloads[d].result.link,
                                    downloads[d].result.title, outcome) ]
    /\ log' = << >>
    /\ call' = NoCall
    /\ UNCHANGED << store, phase, is_available, app_state, searches >>

\* perform_download after its await
perform_download_resume_ClearSelection(d) ==
    /\ phase = "running"
    /\ downloads[d].coro = "awaiting"
    /\ downloads[d].thread = "returned"
    /\ log' = << downloads[d].ret.message >>
    /\ downloads' = Remove(downloads, d)
    /\ app_state' = AppState(app_state.results, None)
    /\ call' = NoCall
    /\ UNCHANGED << store, phase, is_available, searches >>
perform_download_resume(d) ==
    /\ phase = "running"
    /\ downloads[d].coro = "awaiting"
    /\ downloads[d].thread = "returned"
    /\ log' = << downloads[d].ret.message >>
    /\ downloads' = Remove(downloads, d)
    /\ call' = NoCall
    /\ UNCHANGED << store, phase, is_available, app_state, searches >>

Next ==
    \/ Main
    \/ on_mount
    \/ action_view_library
    \/ \E query \in Queries : on_search_controls_search_requested(query)
    \/ \E w \in 1..Len(searches) : perform_search_await(w)
    \/ \E w \in 1..Len(searches), response \in AppResponses : search_thread(w, response)
    \/ \E w \in 1..Len(searches) : save_thread(w)
    \/ \E w \in 1..Len(searches) : perform_search_resume(w)
    \/ \E key \in VideoIds \cup { Null } : on_results_display_row_highlighted(key)
    \/ \E key \in VideoIds : on_results_display_row_selected(key)
    \/ \E d \in 1..Len(downloads) : perform_download_await(d)
    \/ \E d \in 1..Len(downloads), outcome \in DownloadOutcomes : download_thread(d, outcome)
    \/ \E d \in 1..Len(downloads) : perform_download_resume(d)

Spec == Init /\ [][Next]_vars

\* the event loop runs a coroutine that can run, and the external process
\* of a download exits
DownloadFairness ==
    \A d \in 1..MaxDownloads :
        /\ WF_vars(d <= Len(downloads) /\ perform_download_await(d))
        /\ WF_vars(d <= Len(downloads)
                     /\ \E outcome \in DownloadOutcomes : download_thread(d, outcome))
        /\ WF_vars(d <= Len(downloads) /\ perform_download_resume(d))

SpecFair == Spec /\ DownloadFairness

(***************************************************************************)
(* main.py: the coordinator's methods called directly, on what the service *)
(* calls returned.                                                         *)
(***************************************************************************)
\* the states perform_search may find when search returns: nothing shown, or
\* the listing of the store as it was, its first row selected
StatesBefore(table) ==
    LET rows == SortRows(<< >>, table)
    IN  { AppState(<< >>, None) }
          \cup (IF Len(rows) = 0 THEN { } ELSE { AppState(rows, Some(rows[1])) })

\* perform_search after its await, in `state`, on the pair the search call
\* returned
CallAfterSearch(state) ==
    /\ phase = "service"
    /\ call.op = "search"
    /\ ~call.raised
    /\ log = << >>
    /\ LET after == after_search(state, "get lucky", call.ret)
       IN  /\ app_state' = after.app_state
           /\ log' = after.log
    /\ UNCHANGED << store, phase, is_available, searches, downloads, call >>

AfterSearchCalls ==
    /\ call.op = "search"
    /\ \E state \in StatesBefore(call.before) : CallAfterSearch(state)

\* action_view_library() on the main thread
CallActionViewLibrary ==
    /\ phase = "service"
    /\ call = NoCall
    /\ app_state' = view_library(store).app_state
    /\ log' = view_library(store).log
    /\ call' = Called("action_view_library", MainThread)
    /\ UNCHANGED << store, phase, is_available, searches, downloads >>

NextService ==
    \/ SaveResultsCalls
    \/ LoadAllSongsCalls
    \/ SearchCalls
    \/ AfterSearchCalls
    \/ CallActionViewLibrary
    \/ CallDone

SpecService == InitService /\ [][NextService]_vars

(***************************************************************************)
(* Properties of the services (checked under SpecService).                 *)
(***************************************************************************)
SearchCalled == call.op = "search"
SearchSucceeded == SearchCalled /\ ~call.raised /\ ~IsNone(call.ret.records)

\* the index of the last item of `items` whose videoId is `id`
LastIndexOf(items, id) ==
    CHOOSE i \in 1..Len(items) :
        /\ items[i].videoId = id
        /\ \A j \in (i + 1)..Len(items) : items[j].videoId # id

C5_ExactlyOneOfRecordsError ==
    SearchCalled =>
        /\ ~call.raised
        /\ \/ ~IsNone(call.ret.records) /\ IsNone(call.ret.error)
           \/ /\ IsNone(call.ret.records)
              /\ ~IsNone(call.ret.error)
              /\ call.ret.error[1] # ""

\* a search whose remote call returned items, and that failed in the store
C5_Witness ==
    /\ SearchCalled
    /\ ~call.response.fault
    /\ call.ret.records = None
    /\ call.ret.error = Some("Traceback: sqlite3.ProgrammingError")

C7_DedupLastWins ==
    SearchSucceeded =>
        LET recs == call.ret.records[1]
            items == call.response.items
        IN  /\ \A i, j \in 1..Len(recs) : i # j => recs[i].video_id # recs[j].video_id
            /\ \A i \in 1..Len(recs) :
                  recs[i] = parse_item(items[LastIndexOf(items, recs[i].video_id)]).value[1]

\* a response of two items of one videoId and different fields succeeded
C7_Witness ==
    /\ SearchSucceeded
    /\ Len(call.response.items) = 2
    /\ call.response.items[1].videoId = call.response.items[2].videoId
    /\ call.response.items[1] # call.response.items[2]
    /\ Len(call.ret.records[1]) = 1

\* C8: a response of two items with the same videoId, exactly one of them
\* without an album, gives one record whose album_name is the album of the
\* item that has one, whichever comes first, and one new row in the store.
C8_AlbumFromWhicheverSupplied ==
    LET items == call.response.items
        MissingAlbum(i) == items[i].album \in { Absent, Null }
    IN  ( /\ SearchCalled
          /\ ~call.response.fault
          /\ Len(items) = 2
          /\ items[1].videoId = items[2].videoId
          /\ items[1].videoId \in VideoIds
          /\ items[1].videoId \notin VideoIdsOf(call.before)
          /\ MissingAlbum(1) # MissingAlbum(2)
          /\ ~ParseRaises(items[1]) /\ ~ParseRaises(items[2]) )
        => /\ SearchSucceeded
           /\ Len(call.ret.records[1]) = 1
           /\ call.ret.records[1][1].video_id = items[1].videoId
           /\ call.ret.records[1][1].album_name =
                 (IF MissingAlbum(1) THEN items[2].album ELSE items[1].album)
           /\ Len(store) = Len(call.before) + 1

(***************************************************************************)
(* Properties of the running application (checked under Spec).             *)
(***************************************************************************)
\* the step is the completion of search worker w: perform_search runs from
\* its await to its end
Completes(w) == searches[w].coro = "awaiting" /\ searches'[w].coro = "done"

\* the lines perform_search writes for an error
ErrorLines(error) ==
    << Line("An error occurred during search.", ""), Line("error_details", error) >>

\* C1: the completion of a search that is not the most recently requested
\* one never takes place, so it never replaces app_state; the return of a
\* superseded search's remote call leaves app_state as it is.
C1_StaleSearchDiscard ==
    [][\A w \in 1..Len(searches) :
          /\ Completes(w) => w = Len(searches)
          /\ ( /\ w < Len(searches)
               /\ searches[w].thread \in { "running", "saving" }
               /\ searches'[w].thread = "returned" ) => app_state' = app_state]_vars

\* search A, then search B; B completed with no records, which replaced the
\* listing of the library; the call of A returned after that
C1_Witness ==
    /\ Len(searches) = 2
    /\ searches[1].coro = "cancelled"
    /\ searches[1].thread = "returned"
    /\ searches[1].late
    /\ searches[2].coro = "done"
    /\ Len(store) > 0
    /\ app_state.results = << >>

\* C3: when search returned an error, the completion of perform_search
\* leaves app_state (results and selected_result) as it was and writes the
\* error to the log.
C3_FailedSearchLeavesState ==
    [][\A w \in 1..Len(searches) :
          (Completes(w) /\ ~IsNone(searches[w].ret.error)) =>
              /\ app_state' = app_state
              /\ log' = ErrorLines(searches[w].ret.error[1])]_vars

\* a search whose store call failed has just completed; the library is
\* still listed and a row of it is still selected
C3_Witness ==
    /\ log = ErrorLines("Traceback: sqlite3.ProgrammingError")
    /\ Len(app_state.results) = 2
    /\ ~IsNone(app_state.selected_result)

C9_RepeatedSearchReplacesResults ==
    [][\A w \in 1..Len(searches) :
          ( /\ save_thread(w)
            /\ searches[w].coro = "awaiting"
            /\ VideoIdsOf(searches[w].ret.records[1]) \subseteq VideoIdsOf(store) )
          => /\ store' = store
             /\ searches'[w].ret = Success(searches[w].ret.records[1])]_vars

\* C10: no step of the application removes or changes a row of the store:
\* the table before the step is a prefix of the table after it.
C10_AppendOnly ==
    [][/\ Len(store') >= Len(store)
       /\ \A i \in 1..Len(store) : store'[i] = store[i]]_vars

\* the store holds two rows after the start, a search whose call returned,
\* a highlight, an activation and a download that ran
C10_Witness ==
    /\ phase = "running"
    /\ Len(store) = 2
    /\ \E w \in 1..Len(searches) : searches[w].thread = "returned"
    /\ ~IsNone(app_state.selected_result)
    /\ \E d \in 1..Len(downloads) : downloads[d].thread = "returned"

(***************************************************************************)
(* Threads and the store (Spec).                                           *)
(***************************************************************************)
\* the search workers whose executor thread is inside save_results
Saving == { w \in 1..Len(searches) : searches[w].thread = "saving" }

\* the calls that take long: the remote search, the store and the download
LongRunning == { "ytmusic.search", "save_results", "load_all_songs", "Downloader.run" }

\* C11: no two store operations on the shared connection are in progress at
\* the same time: at most one thread is inside save_results, and none is
\* while the main thread runs load_all_songs.
C11_StoreAccessSerialized ==
    /\ Cardinality(Saving) <= 1
    /\ call.op = "load_all_songs" => Saving = { }

\* C12: the event loop runs no long-running operation: no step of the main
\* thread calls the remote search, save_results, load_all_songs or
\* Downloader.run.
C12_NothingLongOnEventLoop ==
    phase = "running" => call.op \notin LongRunning

(***************************************************************************)
(* Items that do not parse, items without an identifier (SpecService).     *)
(***************************************************************************)
\* the items that _parse_item raises on
Malformed(item) == item.videoId # Absent /\ ParseRaises(item)

\* the items of a response without the malformed ones
RECURSIVE WellFormed(_)
WellFormed(items) ==
    IF Len(items) = 0 THEN << >>
    ELSE IF Malformed(items[1]) THEN WellFormed(Tail(items))
    ELSE << items[1] >> \o WellFormed(Tail(items))

\* C13: a search whose response holds a malformed item (and whose remote
\* call and store call do not fail) succeeds, with the records of the
\* well-formed items.
C13_MalformedItemDropped ==
    ( /\ SearchCalled
      /\ call.thread = ConnectionOwner
      /\ ~call.response.fault
      /\ \E i \in 1..Len(call.response.items) : Malformed(call.response.items[i]) )
    => /\ SearchSucceeded
       /\ call.ret.records[1] = UniqueResults(<< >>, WellFormed(call.response.items)).value

\* the identifiers of a response that are not empty and not None
UsableIds(items) ==
    { items[i].videoId : i \in 1..Len(items) } \ { Absent, Null, "" }

\* C14: items without a usable identifier are left out and are no error: a
\* search that succeeds returns one record for each usable identifier of
\* the response and no other; a response whose items are well-formed
\* succeeds when none of its identifiers is usable, and, on the thread of
\* the connection, whatever its identifiers are; no row of the store has an
\* unusable identifier.
C14_UnusableIdsExcluded ==
    /\ SearchSucceeded =>
          /\ VideoIdsOf(call.ret.records[1]) = UsableIds(call.response.items)
          /\ Len(call.ret.records[1]) = Cardinality(UsableIds(call.response.items))
    /\ ( /\ SearchCalled
         /\ ~call.response.fault
         /\ \A i \in 1..Len(call.response.items) : ~Malformed(call.response.items[i])
         /\ \/ UsableIds(call.response.items) = { }
            \/ call.thread = ConnectionOwner )
       => SearchSucceeded
    /\ VideoIdsOf(store) \cap { Absent, Null, "" } = { }

\* a response of an item without a usable identifier and an item with one
\* gave the record of the second and its row
C14_Witness ==
    /\ SearchSucceeded
    /\ Len(call.response.items) = 2
    /\ call.response.items[1].videoId \in { Absent, Null, "" }
    /\ Len(call.ret.records[1]) = 1
    /\ Len(store) = Len(call.before) + 1

(***************************************************************************)
(* Store failures and downloads (Spec, SpecFair).                          *)
(***************************************************************************)
\* what search returns when save_results raised the error of a connection
\* used on a thread that did not make it; when the remote call failed
StoreError == Failure("sqlite3.ProgrammingError")
RemoteError == Failure("ytmusic.search")

\* C15: when save_results fails, search returns an error and no records,
\* the error is not the error of a failed remote call, and the completion
\* of the search leaves app_state as it was and writes that error, not
\* that nothing was found.
C15_StoreFailureReported ==
    [][\A w \in 1..Len(searches) :
          /\ ( /\ searches[w].thread = "saving"
               /\ searches'[w].thread = "returned"
               /\ searches[w].coro = "awaiting"
               /\ save_results(store, searches[w].ret.records[1], WorkerThread).raised )
             => /\ IsNone(searches'[w].ret.records)
                /\ ~IsNone(searches'[w].ret.error)
                /\ searches'[w].ret.error # RemoteError.error
                /\ searches'[w].ret = StoreError
          /\ (Completes(w) /\ searches[w].ret = StoreError)
             => /\ app_state' = app_state
                /\ log' = ErrorLines(StoreError.error[1])]_vars

\* a search whose save_results call failed has just completed, with the
\* library listed
C15_Witness ==
    /\ log = ErrorLines(StoreError.error[1])
    /\ Len(app_state.results) = 2
    /\ \E w \in 1..Len(searches) : searches[w].coro = "done"

\* the lines perform_download writes when a download is over
DownloadOver ==
    { "Download failed: Command not found.", "Download successful for",
      "Download failed for", "An unexpected error occurred during the download of" }
OutcomeWritten == Len(log) = 1 /\ log[1].kind \in DownloadOver

C17_PerTrackAttribution ==
    \A i \in 1..Len(log) : log[i].kind \in DownloadOver => log[i].about # ""

\* C18: when the command was not found, Downloader.run gives (False,
\* "Command not found.") and starts no process, and no download worker
\* gets as far as a thread that runs it.
C18_UnavailableNeverSpawns ==
    ~is_available =>
        /\ \A row \in StartRows, outcome \in DownloadOutcomes :
              Downloader_run(is_available, row.link, row.title, outcome)
                 = [ success |-> FALSE, message |-> Line("Command not found.", ""),
                     spawned |-> FALSE ]
        /\ \A d \in 1..Len(downloads) :
              downloads[d].thread = "idle" /\ ~downloads[d].ret.spawned

\* the command was not found, a row was activated, and perform_download
\* has written that the download failed
C18_Witness ==
    /\ ~is_available
    /\ log = << Line("Download failed: Command not found.", "") >>

\* C19: no step of perform_download (its start, the run of the command on
\* its thread, its end) changes app_state.
C19_DownloadKeepsAppState ==
    [][(downloads' # downloads /\ Len(downloads') <= Len(downloads))
          => app_state' = app_state]_vars

\* a download has just ended with a row selected, and another activation
\* can start a download
C19_Witness ==
    /\ OutcomeWritten
    /\ ~IsNone(app_state.selected_result)
    /\ ENABLED (\E key \in VideoIds :
                  on_results_display_row_selected(key) /\ Len(downloads') > Len(downloads))

\* C20: a highlight of `key` leaves results as they are, and leaves
\* selected_result the record of results with that video_id, or None if
\* there is none.
C20_HighlightSelects ==
    [][\A key \in VideoIds \cup { Null } :
          on_results_display_row_highlighted(key) =>
              /\ app_state'.results = app_state.results
              /\ IF \E i \in 1..Len(app_state.results) : app_state.results[i].video_id = key
                 THEN /\ ~IsNone(app_state'.selected_result)
                      /\ app_state'.selected_result[1].video_id = key
                      /\ \E i \in 1..Len(app_state.results) :
                            app_state.results[i] = app_state'.selected_result[1]
                 ELSE IsNone(app_state'.selected_result)]_vars

\* the second row of the results is the selected one
C20_Witness ==
    /\ Len(app_state.results) = 2
    /\ app_state.selected_result = Some(app_state.results[2])


(***************************************************************************)
(* The application state: selection, start, duplicates.                    *)
(***************************************************************************)
\* `selected` is None or one of the records of `results`
InResults(selected, results) ==
    IsNone(selected) \/ \E i \in 1..Len(results) : results[i] = selected[1]

\* C21: in every state the application reaches (start, library load, the
\* completion of a search, a highlight event), selected_result is None or a
\* record of the current results.
C21_SelectionInResults == InResults(app_state.selected_result, app_state.results)

\* a record is selected after a search has completed
C21_Witness ==
    /\ ~IsNone(app_state.selected_result)
    /\ \E w \in 1..Len(searches) : searches[w].coro = "done"

\* on_mount has just run: its first line says whether the download command
\* was found
JustMounted ==
    /\ Len(log) > 0
    /\ log[1].kind \in { "gytmdl found.", "'gytmdl' not found." }

\* C22: when the application has started, results is what load_all_songs()
\* returns for the store and selected_result is None; with an empty store
\* results is the empty sequence, and no error is written.
C22_StartShowsLibrary ==
    JustMounted =>
        /\ ~load_all_songs(store, MainThread).raised
        /\ app_state = AppState(load_all_songs(store, MainThread).value, None)
        /\ store = << >> => app_state.results = << >>
        /\ \A i \in 1..Len(log) : log[i].kind # "An error occurred during search."
        /\ log[Len(log)] = Line("Displaying songs from your local library.",
                                ToString(Len(store)))

\* the application has started on a store of two rows
C22_Witness ==
    /\ JustMounted
    /\ Len(store) = 2
    /\ Len(app_state.results) = 2
    /\ IsNone(app_state.selected_result)

(***************************************************************************)
(* load_all_songs: what it returns, and its order.                         *)
(***************************************************************************)
LoadReturned == call.op = "load_all_songs" /\ ~call.raised

\* two different rows with the same artist, album_name and title
Tie(r, q) == r # q /\ ~OrderedBefore(r, q) /\ ~OrderedBefore(q, r)

\* C23: load_all_songs returns every stored record exactly once, and no
\* record of what it returns sorts before a record in front of it by
\* (artist, album_name, title).
C23_LoadAllSortedAndComplete ==
    LoadReturned =>
        /\ Len(call.rows) = Len(store)
        /\ \A r \in 1..Len(store) :
              Cardinality({ i \in 1..Len(call.rows) : call.rows[i] = store[r] }) = 1
        /\ \A i, j \in 1..Len(call.rows) :
              i < j => ~OrderedBefore(call.rows[j], call.rows[i])

\* the rows came back in another order than they were stored in
C23_Witness ==
    /\ LoadReturned
    /\ Len(store) = 2
    /\ call.rows = << store[2], store[1] >>

SearchApplied == SearchCalled /\ Len(log) > 0

\* the usable identifiers of a response in the order in which each first
\* occurs in it
RECURSIVE ResponseOrder(_, _)
ResponseOrder(seen, items) ==
    IF Len(items) = 0 THEN seen
    ELSE IF /\ items[1].videoId \in UsableIds(items)
            /\ \A i \in 1..Len(seen) : seen[i] # items[1].videoId
         THEN ResponseOrder(Append(seen, items[1].videoId), Tail(items))
         ELSE ResponseOrder(seen, Tail(items))

\* C25: after a search that succeeded, results is the sequence of records
\* search returned, in the order of the remote response and not in the order
\* of the library, and selected_result is None; when the search returned no
\* record, results is empty.
C25_SearchResultsInResponseOrder ==
    (SearchApplied /\ SearchSucceeded) =>
        /\ app_state = AppState(call.ret.records[1], None)
        /\ [ i \in 1..Len(app_state.results) |-> app_state.results[i].video_id ]
              = ResponseOrder(<< >>, call.response.items)
        /\ UsableIds(call.response.items) = { } => app_state.results = << >>

\* two records shown in the order of the response, which is not the order
\* load_all_songs would give them
C25_Witness ==
    /\ SearchApplied
    /\ SearchSucceeded
    /\ Len(app_state.results) = 2
    /\ OrderedBefore(app_state.results[2], app_state.results[1])
    /\ IsNone(app_state.selected_result)

(***************************************************************************)
(* main.py, __main__: app.run() ends, and the finally clause.              *)
(***************************************************************************)
\* how app.run() ends: it returns (quit), or an exception leaves it
RunEnds == { "returned", "raised" }

\* app.run() ends; the event loop handles nothing any more, the threads
\* that run go on
app_run_ends(how) ==
    /\ phase \in { "mounting", "running" }
    /\ phase' = how
    /\ log' = << >>
    /\ call' = NoCall
    /\ UNCHANGED << store, is_available, app_state, searches, downloads >>

\* db_service.close() in the finally clause of try: app.run()
close_NoFinally ==
    /\ phase = "returned"
    /\ phase' = "closed"
    /\ log' = << >>
    /\ call' = Called("close", MainThread)
    /\ UNCHANGED << store, is_available, app_state, searches, downloads >>
close ==
    /\ phase \in RunEnds
    /\ phase' = "closed"
    /\ log' = << >>
    /\ call' = Called("close", MainThread)
    /\ UNCHANGED << store, is_available, app_state, searches, downloads >>

NextShutdown ==
    \/ Next
    \/ \E how \in RunEnds : app_run_ends(how)
    \/ close

\* the main thread goes on into the finally clause when app.run() has ended
SpecShutdown == Init /\ [][NextShutdown]_vars /\ WF_vars(close)

\* C26: the store having been opened, close() is called once app.run() has
\* ended, whether it returned or an exception left it; it is not called
\* before app.run() has ended, and it is not called a second time.
C26_ClosedOnceAfterRun ==
    /\ [][call'.op = "close" => (phase \in RunEnds /\ phase' = "closed")]_vars
    /\ [][phase' = "closed" => (phase = "closed" \/ call'.op = "close")]_vars
    /\ [][phase = "closed" => (phase' = "closed" /\ call'.op # "close")]_vars
    /\ (phase \in RunEnds) ~> (phase = "closed")

\* close() has just been called, after searches were made
C26_Witness ==
    /\ phase = "closed"
    /\ call.op = "close"
    /\ Len(searches) > 0

\* no two records of `results` have the same video_id
NoDuplicates(results) ==
    \A i, j \in 1..Len(results) :
        results[i].video_id = results[j].video_id => i = j

\* C27: results holds no two records with the same video_id, whether it
\* comes from a load of the library or from a search that completed.
C27_ResultsHaveNoDuplicates == NoDuplicates(app_state.results)

\* the results of a search whose response had the same identifier twice
C27_Witness ==
    /\ SearchApplied
    /\ SearchSucceeded
    /\ Len(call.response.items) = 2
    /\ call.response.items[1].videoId = call.response.items[2].videoId
    /\ Len(app_state.results) = 1

(***************************************************************************)
(* Searches that are superseded, and the library loaded meanwhile.         *)
(***************************************************************************)
\* C28: a search that was superseded before its remote call returned is not
\* stopped: its thread goes on into save_results, and when it comes out of
\* it the records of the search are in the store, while the application
\* state has not taken them.
C28_SupersededStillPersists ==
    [][\A w \in 1..Len(searches) :
          ( /\ searches[w].coro = "cancelled"
            /\ searches[w].thread = "saving"
            /\ searches'[w].thread = "returned" )
          => /\ VideoIdsOf(searches[w].ret.records[1]) \subseteq VideoIdsOf(store')
             /\ app_state' = app_state]_vars

\* the step is action_view_library
LibraryLoaded == phase = "running" /\ call'.op = "load_all_songs"

\* C29: loading the library does not supersede a search that is in flight:
\* the step leaves every search worker as it was, results is what
\* load_all_songs() returns, and when the search then completes with
\* success its records take the place of the listing.
C29_LibraryLoadKeepsSearch ==
    /\ [][LibraryLoaded =>
             /\ searches' = searches
             /\ app_state'.results = load_all_songs(store, MainThread).value]_vars
    /\ [][\A w \in 1..Len(searches) :
             (Completes(w) /\ IsNone(searches[w].ret.error))
             => app_state' = AppState(searches[w].ret.records[1], None)]_vars

\* the library of two rows has just been loaded while a search is in flight
\* that has returned with success and has not completed
C29_Witness ==
    /\ phase = "running"
    /\ call.op = "load_all_songs"
    /\ Len(log) = 2
    /\ Len(app_state.results) = 2
    /\ \E w \in 1..Len(searches) :
          /\ searches[w].coro = "awaiting"
          /\ searches[w].thread = "returned"
          /\ ~IsNone(searches[w].ret.records)

(***************************************************************************)
(* Every search concludes.                                                 *)
(***************************************************************************)
\* the event loop runs a coroutine that can run, the remote call returns
\* and the store call returns
SearchFairness ==
    \A w \in 1..MaxSearches :
        /\ WF_vars(w <= Len(searches) /\ perform_search_await(w))
        /\ WF_vars(w <= Len(searches)
                     /\ \E response \in AppResponses : search_thread(w, response))
        /\ WF_vars(w <= Len(searches) /\ save_thread(w))
        /\ WF_vars(w <= Len(searches) /\ perform_search_resume(w))

SpecLive == Spec /\ SearchFairness

\* the lines that tell the outcome of a search
SearchOutcomes ==
    { "An error occurred during search.", "No music found for",
      "Found results. New entries saved to local library." }

\* the line perform_search writes for the records of a search that succeeded
FoundLine(query, records) ==
    IF Len(records) = 0 THEN Line("No music found for", query)
    ELSE Line("Found results. New entries saved to local library.",
              ToString(Len(records)))

\* C30: a search request that is not superseded comes to its conclusion
\* (given that the remote call returns), and the conclusion is one of two:
\* the state replaced and the line of what was found, or the error written
\* and the state unchanged; it concludes once. A request that was superseded
\* never concludes, and no line of an outcome is written but by a search
\* that concludes.
C30_SearchConcludesOnce ==
    /\ [][\A w \in 1..Len(searches) :
             /\ Completes(w) =>
                   IF IsNone(searches[w].ret.error)
                   THEN /\ app_state' = AppState(searches[w].ret.records[1], None)
                        /\ log' = << FoundLine(searches[w].query,
                                               searches[w].ret.records[1]) >>
                   ELSE /\ app_state' = app_state
                        /\ log' = ErrorLines(searches[w].ret.error[1])
             /\ searches[w].coro \in { "done", "cancelled" }
                   => searches'[w].coro = searches[w].coro]_vars
    /\ [][(\E i \in 1..Len(log') : log'[i].kind \in SearchOutcomes)
             => \E w \in 1..Len(searches) : Completes(w)]_vars
    /\ \A w \in 1..MaxSearches :
          (w <= Len(searches) /\ searches[w].coro \in { "pending", "awaiting" })
             ~> (w <= Len(searches) /\ searches[w].coro \in { "done", "cancelled" })

\* the second of two searches has just concluded and written its outcome;
\* the first was superseded
C30_Witness ==
    /\ Len(searches) = 2
    /\ searches[1].coro = "cancelled"
    /\ searches[2].coro = "done"
    /\ Len(log) > 0
    /\ log[1].kind \in SearchOutcomes
=============================================================================
